---------------------------- MODULE Spec2Model ----------------------------
(***************************************************************************)
(* ServiceNow MCP front ends: the interactive command-line session         *)
(* (cli.py), the authentication strategy selection of both front ends      *)
(* (cli.py main, api_server.py startup_event) and the HTTP request         *)
(* handlers with the process-wide server handle (api_server.py).           *)
(***************************************************************************)
EXTENDS Integers, Sequences, FiniteSets, Bags, TLC

VARIABLES
    \* ---- interactive session (cli.py interactive_mode) ----
    pc,            \* position of interactive_mode
    stdin,         \* "open" | "eof": standard input of the session
    line,          \* the raw line input() returned, while `query` is live
    op,            \* server operation in flight / last dispatched
    exc,           \* exception being handled at line 45
    exitBy,        \* what made the loop break
    nread,         \* lines returned by input() so far
    updateCalls,   \* calls of server.natural_language_update
    searchCalls,   \* calls of server.natural_language_search
    printed,       \* results printed (lines 36, 40)
    opErrors,      \* server operations that raised
    reported,      \* "Error: ..." lines printed for a raising operation
    cliCloseCalls, \* calls of server.close() at line 48
    \* ---- configuration and start of both front ends ----
    env,           \* instance URL and credentials given to the process
    cliPc,         \* position of cli.main
    cliServer,     \* the server handle cli.main constructs
    \* ---- HTTP front end (api_server.py) ----
    phase,         \* lifecycle of the ASGI application
    server,        \* the module-level global `server`
    assigns,       \* assignments made to the global `server`
    closeCalls,    \* calls of server.close() by shutdown_event
    inflight,      \* bag of requests awaiting their server operation
    response       \* the response last sent

cliSessionVars == <<pc, stdin, line, op, exc, exitBy, nread, updateCalls,
                    searchCalls, printed, opErrors, reported, cliCloseCalls>>
authVars == <<env, cliPc, cliServer>>
httpVars == <<phase, server, assigns, closeCalls, inflight, response>>
vars == <<cliSessionVars, authVars, httpVars>>

\* Python's None, for a str-valued and for an object-valued name
None == "None"
NoneObj == [type |-> "NoneType"]

(***************************************************************************)
(* Text: a str is a sequence of one-character strings.                     *)
(***************************************************************************)
UpperCase == {"C", "E", "I", "N", "Q", "U", "T", "X"}
LowerCase == {"a", "b", "c", "d", "e", "f", "g", "h", "i", "k", "l", "m",
              "n", "o", "p", "q", "r", "s", "t", "u", "v", "x", "y"}
Digits == {"0", "1", "3"}
Whitespace == {" "}

\* str.lower() on one character
LowerChar(c) ==
    CASE c = "C" -> "c" [] c = "E" -> "e" [] c = "I" -> "i" [] c = "N" -> "n"
      [] c = "Q" -> "q" [] c = "U" -> "u" [] c = "T" -> "t" [] c = "X" -> "x"
      [] OTHER -> c

\* str.lower()
Lower(s) == [i \in 1..Len(s) |-> LowerChar(s[i])]

\* str.strip(): drop leading and trailing whitespace
RECURSIVE LStrip(_)
LStrip(s) == IF s # <<>> /\ Head(s) \in Whitespace THEN LStrip(Tail(s)) ELSE s
RECURSIVE RStrip(_)
RStrip(s) ==
    IF s # <<>> /\ s[Len(s)] \in Whitespace
    THEN RStrip(SubSeq(s, 1, Len(s) - 1)) ELSE s
Strip(s) == RStrip(LStrip(s))

\* `sub in s` for two str values: substring containment
Contains(s, sub) ==
    \E i \in 0..(Len(s) - Len(sub)) : SubSeq(s, i + 1, i + Len(sub)) = sub

W_update  == <<"u", "p", "d", "a", "t", "e">>
W_set     == <<"s", "e", "t">>
W_close   == <<"c", "l", "o", "s", "e">>
W_change  == <<"c", "h", "a", "n", "g", "e">>
W_modify  == <<"m", "o", "d", "i", "f", "y">>
W_resolve == <<"r", "e", "s", "o", "l", "v", "e">>
W_assign  == <<"a", "s", "s", "i", "g", "n">>
W_quit    == <<"q", "u", "i", "t">>
W_exit    == <<"e", "x", "i", "t">>
W_q       == <<"q">>

\* cli.py line 28: ['quit', 'exit', 'q']
QuitWords == {W_quit, W_exit, W_q}

\* a quit test that forgets .lower()
IsQuitCaseSensitive(query) == query \in QuitWords

\* `query.lower() in ['quit', 'exit', 'q']`
IsQuit(query) == Lower(query) \in QuitWords

\* cli.py line 33: ['update', 'set', 'close', 'change', 'modify']
UpdateWords == {W_update, W_set, W_close, W_change, W_modify}

\* a classifier that also takes an incident prefix for an update command
IsUpdateCommandOnReference(query) ==
    \E word \in UpdateWords \cup {<<"i", "n", "c">>} : Contains(Lower(query), word)

\* `any(word in query.lower() for word in [...])`
IsUpdateCommand(query) ==
    \E word \in UpdateWords : Contains(Lower(query), word)

(***************************************************************************)
(* The lines a user may type: up to MaxWords words separated by one space. *)
(***************************************************************************)
MaxWords == 2
MaxLines == 3

Vocabulary ==
    { <<>>,
      W_update, W_set, W_close, W_change, W_modify, W_resolve, W_assign,
      <<"C", "l", "o", "s", "e">>,
      <<"r", "e", "s", "e", "t">>,
      <<"I", "N", "C", "0", "0", "1", "0", "0", "0", "3">>,
      <<"i", "s">>,
      W_quit, W_q, <<"E", "X", "I", "T">> }

RECURSIVE Phrases(_)
Phrases(n) ==
    IF n = 1 THEN Vocabulary
    ELSE LET shorter == Phrases(n - 1)
         IN  shorter \cup {p \o <<" ">> \o w : p \in shorter, w \in Vocabulary}

Lines == Phrases(MaxWords)

(***************************************************************************)
(* interactive_mode (cli.py lines 15-48)                                   *)
(***************************************************************************)
cliCounters == <<updateCalls, searchCalls, printed, opErrors, reported, cliCloseCalls>>

\* line 23 returns a line; lines 25-40 up to the await of the server call
ReadLine ==
    /\ pc = "read"
    /\ stdin = "open"
    /\ nread < MaxLines
    /\ \E raw \in Lines :
         LET query == Strip(raw) IN
         /\ line' = raw
         /\ nread' = nread + 1
         /\ IF query = <<>>
            THEN \* `if not query: continue`
                 /\ pc' = "read"
                 /\ UNCHANGED <<op, exitBy, updateCalls, searchCalls>>
            ELSE IF IsQuit(query)
            THEN \* print("Goodbye!"); break
                 /\ pc' = "close"
                 /\ exitBy' = "quit"
                 /\ UNCHANGED <<op, updateCalls, searchCalls>>
            ELSE IF IsUpdateCommand(query)
            THEN /\ pc' = "await"
                 /\ op' = "natural_language_update"
                 /\ updateCalls' = updateCalls + 1
                 /\ UNCHANGED <<exitBy, searchCalls>>
            ELSE /\ pc' = "await"
                 /\ op' = "natural_language_search"
                 /\ searchCalls' = searchCalls + 1
                 /\ UNCHANGED <<exitBy, updateCalls>>
    /\ UNCHANGED <<stdin, exc, printed, opErrors, reported, cliCloseCalls>>
    /\ UNCHANGED <<authVars, httpVars>>

\* line 23: input() raises EOFError at end of standard input, and again on
\* every later call; EOFError is an Exception, caught at line 45
ReadEOF ==
    /\ pc = "read"
    /\ stdin' = "eof"
    /\ exc' = "EOFError"
    /\ pc' = "except"
    /\ UNCHANGED <<line, op, exitBy, nread, cliCounters>>
    /\ UNCHANGED <<authVars, httpVars>>

\* KeyboardInterrupt while input() waits: lines 42-44
ReadInterrupt ==
    /\ pc = "read"
    /\ pc' = "close"
    /\ exitBy' = "KeyboardInterrupt"
    /\ UNCHANGED <<stdin, line, op, exc, nread, cliCounters>>
    /\ UNCHANGED <<authVars, httpVars>>

\* the awaited server operation returns; lines 36 / 40 print the result.
\* `query` is dead from here to the next input(): the model clears it.
OpReturns ==
    /\ pc = "await"
    /\ printed' = printed + 1
    /\ pc' = "read"
    /\ line' = <<>>
    /\ UNCHANGED <<stdin, op, exc, exitBy, nread, updateCalls,
                   searchCalls, opErrors, reported, cliCloseCalls>>
    /\ UNCHANGED <<authVars, httpVars>>

\* the awaited server operation raises an Exception: control goes to line 45
OpRaises ==
    /\ pc = "await"
    /\ opErrors' = opErrors + 1
    /\ exc' = "OpError"
    /\ pc' = "except"
    /\ line' = <<>>
    /\ UNCHANGED <<stdin, op, exitBy, nread, updateCalls,
                   searchCalls, printed, reported, cliCloseCalls>>
    /\ UNCHANGED <<authVars, httpVars>>

\* KeyboardInterrupt while the server operation is awaited: lines 42-44
OpInterrupt ==
    /\ pc = "await"
    /\ pc' = "close"
    /\ exitBy' = "KeyboardInterrupt"
    /\ line' = <<>>
    /\ UNCHANGED <<stdin, op, exc, nread, cliCounters>>
    /\ UNCHANGED <<authVars, httpVars>>

\* where the loop goes after the handler at lines 45-46
AfterExceptBreaks == "close"
AfterExcept == "read"

\* lines 45-46: print the error to stderr, then the next iteration.
\* Only the reports for a raising operation are counted: the reports for
\* EOFError are unbounded in number.
ReportError ==
    /\ pc = "except"
    /\ reported' = IF exc = "OpError" THEN reported + 1 ELSE reported
    /\ exc' = "none"
    /\ pc' = AfterExcept
    /\ UNCHANGED <<stdin, line, op, exitBy, nread, updateCalls,
                   searchCalls, printed, opErrors, cliCloseCalls>>
    /\ UNCHANGED <<authVars, httpVars>>

\* line 48: await server.close()
CliClose ==
    /\ pc = "close"
    /\ cliCloseCalls' = cliCloseCalls + 1
    /\ pc' = "done"
    /\ UNCHANGED <<stdin, line, op, exc, exitBy, nread, updateCalls,
                   searchCalls, printed, opErrors, reported>>
    /\ UNCHANGED <<authVars, httpVars>>

IdleAuth == /\ env = None /\ cliPc = "idle" /\ cliServer = NoneObj
IdleHttp ==
    /\ phase = "idle" /\ server = NoneObj /\ assigns = 0 /\ closeCalls = 0
    /\ inflight = EmptyBag /\ response = NoneObj
IdleCli ==
    /\ pc = "idle" /\ stdin = "open" /\ line = <<>> /\ op = None
    /\ exc = "none" /\ exitBy = "none" /\ nread = 0
    /\ updateCalls = 0 /\ searchCalls = 0 /\ printed = 0
    /\ opErrors = 0 /\ reported = 0 /\ cliCloseCalls = 0

\* interactive_mode entered with a constructed server (cli.py line 95)
InitCli ==
    /\ pc = "read" /\ stdin = "open" /\ line = <<>> /\ op = None
    /\ exc = "none" /\ exitBy = "none" /\ nread = 0
    /\ updateCalls = 0 /\ searchCalls = 0 /\ printed = 0
    /\ opErrors = 0 /\ reported = 0 /\ cliCloseCalls = 0
    /\ IdleAuth /\ IdleHttp

NextCli ==
    \/ ReadLine
    \/ ReadEOF
    \/ ReadInterrupt
    \/ OpReturns
    \/ OpRaises
    \/ OpInterrupt
    \/ ReportError
    \/ CliClose

SpecCli == InitCli /\ [][NextCli]_vars

\* The steps the program itself takes; a KeyboardInterrupt is the user's.
CliProgramStep ==
    ReadLine \/ ReadEOF \/ OpReturns \/ OpRaises \/ ReportError \/ CliClose

FairSpecCli == InitCli /\ [][NextCli]_vars /\ WF_vars(CliProgramStep)

(***************************************************************************)
(* Configuration: the six settings both front ends read.  A setting is     *)
(* absent (None), the empty string, or a non-empty string.                 *)
(***************************************************************************)
SettingValues == {None, "", "x"}

Env == [url : SettingValues, token : SettingValues,
        client_id : SettingValues, client_secret : SettingValues,
        username : SettingValues, password : SettingValues]

\* Python truthiness of an Optional[str]
Truthy(v) == v # None /\ v # ""

\* ServiceNowMCP(instance_url=..., auth=...)
ServiceNowMCP(instance_url, auth) == [instance_url |-> instance_url, auth |-> auth]

\* api_server.py lines 94-119: the strategy startup_event selects, or the
\* ValueError it raises
StartupAuth(e) ==
    IF ~Truthy(e.url) THEN "ValueError: SERVICENOW_INSTANCE_URL"
    ELSE IF Truthy(e.token) THEN "token"
    ELSE IF Truthy(e.client_id) /\ Truthy(e.client_secret)
            /\ Truthy(e.username) /\ Truthy(e.password) THEN "oauth"
    ELSE IF Truthy(e.username) /\ Truthy(e.password) THEN "basic"
    ELSE "ValueError: credentials"

\* a main that tries username/password before the OAuth settings
CliAuthBasicFirst(args) ==
    IF ~Truthy(args.url) THEN "sys.exit(1): url"
    ELSE IF Truthy(args.token) THEN "token"
    ELSE IF Truthy(args.username) /\ Truthy(args.password) THEN "basic"
    ELSE IF Truthy(args.client_id) /\ Truthy(args.client_secret)
            /\ Truthy(args.username) /\ Truthy(args.password) THEN "oauth"
    ELSE "sys.exit(1): credentials"

\* cli.py lines 69-88: the strategy main selects, or the exit it takes.
\* args holds the parsed options, whose defaults are the environment's.
CliAuth(args) ==
    IF ~Truthy(args.url) THEN "sys.exit(1): url"
    ELSE IF Truthy(args.token) THEN "token"
    ELSE IF Truthy(args.client_id) /\ Truthy(args.client_secret)
            /\ Truthy(args.username) /\ Truthy(args.password) THEN "oauth"
    ELSE IF Truthy(args.username) /\ Truthy(args.password) THEN "basic"
    ELSE "sys.exit(1): credentials"

Strategies == {"token", "oauth", "basic"}

\* api_server.py lines 89-122
startup_event ==
    /\ phase = "boot"
    /\ LET auth == StartupAuth(env) IN
       IF auth \in Strategies
       THEN /\ server' = ServiceNowMCP(env.url, auth)
            /\ assigns' = assigns + 1
            /\ phase' = "serving"
       ELSE \* ValueError: the application does not start
            /\ phase' = "startup_failed"
            /\ UNCHANGED <<server, assigns>>
    /\ UNCHANGED <<closeCalls, inflight, response>>
    /\ UNCHANGED <<cliSessionVars, authVars>>

\* cli.py lines 50-97
Transports == {"stdio", "sse", "interactive"}
CliMain ==
    /\ cliPc = "main"
    /\ LET auth == CliAuth(env) IN
       IF auth \in Strategies
       THEN /\ cliServer' = ServiceNowMCP(env.url, auth)
            /\ \E transport \in Transports :
                 cliPc' = IF transport = "interactive"
                          THEN "interactive_mode" ELSE "server.run"
       ELSE /\ cliPc' = "sys.exit(1)"
            /\ UNCHANGED cliServer
    /\ UNCHANGED env
    /\ UNCHANGED <<cliSessionVars, httpVars>>

\* both front ends about to start on the same configuration
InitAuth ==
    /\ env \in Env
    /\ cliPc = "main" /\ cliServer = NoneObj
    /\ phase = "boot" /\ server = NoneObj /\ assigns = 0 /\ closeCalls = 0
    /\ inflight = EmptyBag /\ response = NoneObj
    /\ IdleCli

NextAuth ==
    \/ startup_event
    \/ CliMain

SpecAuth == InitAuth /\ [][NextAuth]_vars

(***************************************************************************)
(* HTTP front end: request handlers (api_server.py lines 145-315)          *)
(***************************************************************************)
MaxReq == 2

SimpleEndpoints ==
    {"natural_language_search", "natural_language_update", "get_record",
     "create_incident", "get_incident_by_number", "list_incidents"}
Endpoints ==
    SimpleEndpoints \cup {"search_records", "update_incident", "perform_query"}

\* UpdateIncidentRequest, lines 76-80: the optional fields
UpdateFields == {"short_description", "description", "state", "work_notes", "comments"}

\* request bodies: pydantic types limit and offset as int, with no range
LimitValues == {0 - 1, 0, 10}
OffsetValues == {0 - 1, 0}
Payloads == {{}, {"work_notes"}, UpdateFields}

\* a request: its endpoint and the fields of its body the model follows
Requests ==
    {[ep |-> ep] : ep \in SimpleEndpoints}
    \cup {[ep |-> "search_records", limit |-> l] : l \in LimitValues}
    \cup {[ep |-> "perform_query", limit |-> l, offset |-> o] :
              l \in LimitValues, o \in OffsetValues}
    \cup {[ep |-> "update_incident", fields |-> f] : f \in Payloads}

\* what the awaited server operation does: it raises an Exception, or
\* returns None, "", a str that is not JSON, a JSON str, a JSON str holding
\* NaN, a non-empty dict, or a value of another type
Outcomes ==
    {"raises", "None", "empty_str", "bad_json", "json", "json_nan", "dict", "other"}

Return(status) == [kind |-> "return", status |-> status]
Raise(e) == [kind |-> "raise", exc |-> e]

\* lines 153-192: the try body of natural_language_search
NlSearchBody(srv, outcome) ==
    IF srv = NoneObj THEN Raise("HTTPException")                  \* 154-158
    ELSE IF outcome = "raises" THEN Raise("OpException")        \* 161
    ELSE IF outcome \in {"None", "empty_str"} THEN Raise("HTTPException") \* 164-168
    ELSE IF outcome = "bad_json" THEN Raise("HTTPException")    \* 174-183
    ELSE IF outcome = "json" THEN Return("200")                   \* 173, 192
    ELSE IF outcome = "json_nan" THEN Raise("ValueError")       \* 192
    ELSE IF outcome = "dict" THEN Return("200")                   \* 184-185, 192
    ELSE Raise("HTTPException")                                 \* 186-190

\* the try body of the other handlers: `result = await server.op(...)`,
\* then `return JSONResponse(content=json.loads(result))`
GenericBody(srv, outcome) ==
    IF srv = NoneObj THEN Raise("AttributeError")
    ELSE IF outcome = "raises" THEN Raise("OpException")
    ELSE IF outcome \in {"empty_str", "bad_json"} THEN Raise("JSONDecodeError")
    ELSE IF outcome \in {"None", "dict", "other"} THEN Raise("TypeError")
    ELSE IF outcome = "json_nan" THEN Raise("ValueError")
    ELSE Return("200")

\* the exception classes that derive from Exception
ExceptionClasses ==
    {"HTTPException", "OpException", "AttributeError", "JSONDecodeError",
     "TypeError", "ValueError"}

\* lines 194-205: `except HTTPException: raise`, then `except Exception`
NlSearchExcept(e) ==
    IF e = "HTTPException" THEN "500"        \* its own status_code, re-raised
    ELSE IF e \in ExceptionClasses THEN "500"
    ELSE "unhandled"

\* a handler that catches the JSON error alone
GenericExceptJsonOnly(e) ==
    IF e = "JSONDecodeError" THEN "500" ELSE "unhandled"

\* `except Exception as e: raise HTTPException(status_code=500, ...)`
GenericExcept(e) ==
    IF e \in ExceptionClasses THEN "500" ELSE "unhandled"

\* the status a handler answers with
HandlerStatus(ep, srv, outcome) ==
    IF ep = "natural_language_search"
    THEN LET b == NlSearchBody(srv, outcome) IN
         IF b.kind = "return" THEN b.status ELSE NlSearchExcept(b.exc)
    ELSE LET b == GenericBody(srv, outcome) IN
         IF b.kind = "return" THEN b.status ELSE GenericExcept(b.exc)

Response(ep, cause, status) == [ep |-> ep, cause |-> cause, status |-> status]

\* the application serves although startup_event never ran (lifespan
\* events off): the global keeps its initial None, the case lines 153-158
\* answer
ServeWithoutStartup ==
    /\ phase = "boot"
    /\ phase' = "serving"
    /\ UNCHANGED <<server, assigns, closeCalls, inflight, response>>
    /\ UNCHANGED <<cliSessionVars, authVars>>

\* a request arrives and its handler runs up to the await of the server
\* operation; with no server handle it answers at once
Receive ==
    /\ phase = "serving"
    /\ response = NoneObj
    /\ BagCardinality(inflight) < MaxReq
    /\ \E req \in Requests :
         IF server = NoneObj
         THEN /\ response' = Response(req.ep, "no_server",
                                      HandlerStatus(req.ep, server, "raises"))
              /\ UNCHANGED inflight
         ELSE /\ inflight' = inflight (+) SetToBag({req})
              /\ UNCHANGED response
    /\ UNCHANGED <<phase, server, assigns, closeCalls>>
    /\ UNCHANGED <<cliSessionVars, authVars>>

\* the server operation of a request in flight ends and the handler answers
Complete ==
    /\ response = NoneObj
    /\ \E req \in BagToSet(inflight), outcome \in Outcomes :
         /\ inflight' = inflight (-) SetToBag({req})
         /\ response' = Response(req.ep, outcome,
                                 HandlerStatus(req.ep, server, outcome))
    /\ UNCHANGED <<phase, server, assigns, closeCalls>>
    /\ UNCHANGED <<cliSessionVars, authVars>>

\* the response has left the process
SendResponse ==
    /\ response # NoneObj
    /\ response' = NoneObj
    /\ UNCHANGED <<phase, server, assigns, closeCalls, inflight>>
    /\ UNCHANGED <<cliSessionVars, authVars>>

\* a shutdown that closes without looking at the handle
ShouldCloseAlways(srv) == TRUE

\* line 128: `if server:`
ShouldClose(srv) == srv # NoneObj

\* api_server.py lines 124-129
shutdown_event ==
    /\ phase = "serving"
    /\ response = NoneObj
    /\ phase' = "stopped"
    /\ closeCalls' = IF ShouldClose(server) THEN closeCalls + 1 ELSE closeCalls
    /\ UNCHANGED <<server, assigns, inflight, response>>
    /\ UNCHANGED <<cliSessionVars, authVars>>

\* configurations of the HTTP process: basic credentials, a token, no URL
HttpEnvs ==
    { [url |-> "x", token |-> None, client_id |-> None, client_secret |-> None,
       username |-> "x", password |-> "x"],
      [url |-> "x", token |-> "x", client_id |-> None, client_secret |-> None,
       username |-> None, password |-> None],
      [url |-> None, token |-> None, client_id |-> None, client_secret |-> None,
       username |-> "x", password |-> "x"] }

\* module import: line 45 `server = None`
InitHttp ==
    /\ env \in HttpEnvs
    /\ cliPc = "idle" /\ cliServer = NoneObj
    /\ phase = "boot" /\ server = NoneObj /\ assigns = 0 /\ closeCalls = 0
    /\ inflight = EmptyBag /\ response = NoneObj
    /\ IdleCli

NextHttp ==
    \/ startup_event
    \/ ServeWithoutStartup
    \/ Receive
    \/ Complete
    \/ SendResponse
    \/ shutdown_event

SpecHttp == InitHttp /\ [][NextHttp]_vars

(***************************************************************************)
(* Properties of the interactive session                                   *)
(***************************************************************************)
\* the mutation verbs of the specification's Intent Classifier (section 4.2)
MutationVerbs ==
    {W_update, W_set, W_close, W_change, W_modify, W_resolve, W_assign}

HasMutationVerb(text) == \E v \in MutationVerbs : Contains(Lower(text), v)

\* a record reference: an alphabetic prefix followed by digits
HasRecordRef(text) ==
    \E i \in 1..(Len(text) - 1) :
        /\ text[i] \in UpperCase \cup LowerCase
        /\ text[i + 1] \in Digits

IsEmptyLine(raw) == \A i \in 1..Len(raw) : raw[i] \in Whitespace
IsQuitKeyword(raw) == Lower(Strip(raw)) \in {W_quit, W_exit, W_q}
Dispatchable(raw) == ~IsEmptyLine(raw) /\ ~IsQuitKeyword(raw)

cliCalls == updateCalls + searchCalls

\* C1: every line that is non-empty after stripping and is no quit keyword
\* causes exactly one server operation, whose result is printed when it
\* returns; an empty line causes none; a quit keyword ends the loop, and no
\* server operation is called for it or after it.
C1_OneOperationPerLine ==
    [][ /\ (nread' = nread + 1) =>
              /\ Dispatchable(line') => (cliCalls' = cliCalls + 1 /\ pc' = "await")
              /\ IsEmptyLine(line') => (cliCalls' = cliCalls /\ pc' = "read")
              /\ IsQuitKeyword(line') => (cliCalls' = cliCalls /\ pc' = "close")
        /\ (nread' = nread) => (cliCalls' = cliCalls)
        /\ (pc \in {"close", "done"}) =>
              (cliCalls' = cliCalls /\ nread' = nread /\ pc' \in {"close", "done"})
        /\ (pc = "await" /\ pc' = "read") => (printed' = printed + 1)
        /\ printed' + opErrors' <= cliCalls'
      ]_vars

\* an empty line, a dispatched line whose result was printed, then quit
C1_Witness ==
    /\ pc = "done" /\ exitBy = "quit"
    /\ nread = 3 /\ cliCalls = 1 /\ printed = 1

\* C2: a command with a mutation verb (update, set, close, change, modify,
\* resolve, assign) and a record reference is dispatched to
\* natural_language_update, not to natural_language_search.
C2_VerbAndReferenceIsUpdate ==
    (pc = "await" /\ HasMutationVerb(line) /\ HasRecordRef(line))
        => (op = "natural_language_update")

\* C3: a command whose lowercased text contains no mutation verb is
\* dispatched to natural_language_search, never to natural_language_update,
\* also when it holds a record reference.
C3_NoVerbIsSearch ==
    (pc = "await" /\ ~HasMutationVerb(line))
        => (op = "natural_language_search" /\ searchCalls >= 1)

\* a reference without a verb ("INC0010003 is") is being searched
C3_Witness ==
    /\ pc = "await" /\ HasRecordRef(line) /\ ~HasMutationVerb(line)
    /\ op = "natural_language_search"

\* C9: when the server operation of a line raises, the error is reported,
\* the loop goes on reading, the session ends only by quit or interrupt, and
\* a later non-empty non-quit line is still dispatched.
C9_ErrorDoesNotEndSession ==
    [][ /\ (pc = "await" /\ opErrors' = opErrors + 1) =>
              (pc' = "except" /\ exc' = "OpError")
        /\ (pc = "except" /\ exc = "OpError") =>
              (pc' = "read" /\ reported' = reported + 1)
        /\ (pc' \in {"close", "done"}) => (exitBy' \in {"quit", "KeyboardInterrupt"})
        /\ (opErrors > 0 /\ nread' = nread + 1 /\ Dispatchable(line')) =>
              (cliCalls' = cliCalls + 1 /\ pc' = "await")
      ]_vars

\* after a reported error a later line is dispatched
C9_Witness ==
    /\ opErrors >= 1 /\ reported = opErrors /\ pc = "await"

\* C10: once the input has ended (quit keyword, keyboard interrupt or end of
\* standard input) the session eventually leaves its loop and has called
\* server.close() exactly once.
C10_TerminatesAndClosesOnce ==
    (stdin = "eof" \/ exitBy # "none") ~> (pc = "done" /\ cliCloseCalls = 1)

(***************************************************************************)
(* Properties of the HTTP front end and of the start of both front ends    *)
(***************************************************************************)
\* the failures of a request: no server handle, a server operation that
\* raises, a result that is empty or is not JSON
FailureCauses == {"no_server", "raises", "None", "empty_str", "bad_json"}

\* C4: every failure while a request is handled is answered with HTTP 500,
\* on every endpoint; no other error status is produced and no exception
\* leaves a handler uncaught.
C4_FailuresAnswer500 ==
    response # NoneObj =>
        /\ response.status \in {"200", "500"}
        /\ response.cause \in FailureCauses => response.status = "500"

\* natural_language_update answered 500 although no server handle exists
C4_Witness ==
    /\ response # NoneObj
    /\ response.ep = "natural_language_update"
    /\ response.cause = "no_server"
    /\ response.status = "500"

\* C5: an update-by-number request that supplies none of short_description,
\* description, state, work_notes, comments is rejected before it is
\* dispatched: server.update_incident is never called for it.
C5_EmptyUpdateNotDispatched ==
    \A req \in BagToSet(inflight) :
        req.ep = "update_incident" => req.fields # {}

\* C6: every query passed to the server (search_records, perform_query) has
\* limit > 0 and offset >= 0.
C6_QueryBoundsHold ==
    \A req \in BagToSet(inflight) :
        /\ req.ep = "search_records" => req.limit > 0
        /\ req.ep = "perform_query" => (req.limit > 0 /\ req.offset >= 0)

\* C7: only startup_event assigns the global handle, once, from None; no
\* request handler changes it; shutdown closes it at most once and only
\* when it was initialized.
C7_HandleWrittenOnceAtStartup ==
    [][ /\ (server' # server) =>
              /\ phase = "boot" /\ phase' = "serving"
              /\ server = NoneObj /\ assigns' = 1
        /\ (assigns' # assigns) => (server' # server)
        /\ (inflight' # inflight \/ response' # response) => (server' = server)
        /\ (closeCalls' # closeCalls) =>
              /\ closeCalls' = 1
              /\ server # NoneObj /\ server' = server
              /\ phase = "serving" /\ phase' = "stopped"
      ]_vars

\* the handle was assigned once and closed once while requests were in flight
C7_Witness ==
    /\ assigns = 1 /\ closeCalls = 1 /\ server # NoneObj
    /\ BagCardinality(inflight) >= 2

\* a setting is present when it is given and not empty
Present(v) == v \notin {None, ""}

\* the precedence: token, then OAuth (client id, client secret, username and
\* password all present), then basic (username and password)
ExpectedStrategy(e) ==
    CASE ~Present(e.url) -> "none"
      [] Present(e.url) /\ Present(e.token) -> "token"
      [] Present(e.url) /\ ~Present(e.token) /\ Present(e.client_id)
           /\ Present(e.client_secret) /\ Present(e.username)
           /\ Present(e.password) -> "oauth"
      [] Present(e.url) /\ ~Present(e.token)
           /\ ~(Present(e.client_id) /\ Present(e.client_secret))
           /\ Present(e.username) /\ Present(e.password) -> "basic"
      [] OTHER -> "none"

ExpectedHandle(e) ==
    IF ExpectedStrategy(e) = "none" THEN NoneObj
    ELSE [instance_url |-> e.url, auth |-> ExpectedStrategy(e)]

\* C8: on every configuration the HTTP startup and the CLI main select the
\* same single strategy by the precedence token, OAuth, basic; with no URL
\* or no applicable strategy both fail and construct no server handle.
C8_SameStrategyBothFrontEnds ==
    /\ (phase # "boot") =>
          /\ server = ExpectedHandle(env)
          /\ (server = NoneObj) <=> (phase = "startup_failed")
    /\ (cliPc # "main") =>
          /\ cliServer = ExpectedHandle(env)
          /\ (cliServer = NoneObj) <=> (cliPc = "sys.exit(1)")
    /\ (phase # "boot" /\ cliPc # "main") => (server = cliServer)

\* both front ends chose OAuth although username and password are present
C8_Witness ==
    /\ phase = "serving" /\ cliPc = "interactive_mode"
    /\ server # NoneObj /\ server.auth = "oauth"
    /\ cliServer = server

=============================================================================
